---- MODULE Spec2Model ----
(***************************************************************************)
(* keep-safe: the encrypted secret store.                                  *)
(*                                                                         *)
(* The model has two layers.  The lower one is the crypto service          *)
(* (CryptoService.encrypt / decrypt / normalizeKey) together with the text *)
(* conversions it goes through (UTF-8, hex, JSON).  The upper one is the   *)
(* secret and project controllers running concurrently against the        *)
(* database: every handler is cut at its awaits, one action per database   *)
(* call together with the synchronous code that follows it.                *)
(*                                                                         *)
(* Strings are sequences of UTF-16 code units, buffers are sequences of    *)
(* bytes.                                                                  *)
(***************************************************************************)
EXTENDS Integers, Sequences, FiniteSets, TLC

(***************************************************************************)
(* Text and byte helpers                                                   *)
(***************************************************************************)

Byte == 0..255

RECURSIVE BitXor(_, _, _)
\* a XOR b on the low n bits
BitXor(a, b, n) ==
  IF n = 0 THEN 0
  ELSE (((a % 2) + (b % 2)) % 2) + 2 * BitXor(a \div 2, b \div 2, n - 1)

IsHighSurrogate(c) == c >= 55296 /\ c <= 56319
IsLowSurrogate(c) == c >= 56320 /\ c <= 57343

\* U+FFFD, what Node writes for a code unit or byte it cannot convert
ReplacementChar == <<65533>>

\* the UTF-8 bytes of code point cp
Utf8OfCodePoint(cp) ==
  IF cp < 128 THEN <<cp>>
  ELSE IF cp < 2048 THEN <<192 + (cp \div 64), 128 + (cp % 64)>>
  ELSE IF cp < 65536
    THEN <<224 + (cp \div 4096), 128 + ((cp \div 64) % 64), 128 + (cp % 64)>>
  ELSE <<240 + (cp \div 262144), 128 + ((cp \div 4096) % 64),
         128 + ((cp \div 64) % 64), 128 + (cp % 64)>>

RECURSIVE utf8Encode(_)
\* Buffer.from(s, 'utf8'): a surrogate pair is one 4-byte sequence, a lone
\* surrogate is written as U+FFFD (EF BF BD)
utf8Encode(s) ==
  IF s = <<>> THEN <<>>
  ELSE LET c == Head(s) IN
    IF IsHighSurrogate(c) /\ Len(s) >= 2 /\ IsLowSurrogate(s[2])
      THEN Utf8OfCodePoint(65536 + (c - 55296) * 1024 + (s[2] - 56320))
           \o utf8Encode(Tail(Tail(s)))
    ELSE IF IsHighSurrogate(c) \/ IsLowSurrogate(c)
      THEN Utf8OfCodePoint(ReplacementChar[1]) \o utf8Encode(Tail(s))
    ELSE Utf8OfCodePoint(c) \o utf8Encode(Tail(s))

IsCont(b) == b >= 128 /\ b <= 191

RECURSIVE utf8Decode(_)
\* buf.toString('utf8'): an ill-formed sequence decodes to U+FFFD
utf8Decode(b) ==
  IF b = <<>> THEN <<>>
  ELSE LET x == Head(b) IN
    IF x < 128 THEN <<x>> \o utf8Decode(Tail(b))
    ELSE IF x >= 194 /\ x <= 223 /\ Len(b) >= 2 /\ IsCont(b[2])
      THEN <<(x - 192) * 64 + (b[2] - 128)>> \o utf8Decode(SubSeq(b, 3, Len(b)))
    ELSE IF x >= 224 /\ x <= 239 /\ Len(b) >= 3 /\ IsCont(b[2]) /\ IsCont(b[3])
      THEN LET cp == (x - 224) * 4096 + (b[2] - 128) * 64 + (b[3] - 128) IN
           (IF cp < 2048 \/ IsHighSurrogate(cp) \/ IsLowSurrogate(cp)
              THEN ReplacementChar ELSE <<cp>>)
           \o utf8Decode(SubSeq(b, 4, Len(b)))
    ELSE IF x >= 240 /\ x <= 244 /\ Len(b) >= 4
            /\ IsCont(b[2]) /\ IsCont(b[3]) /\ IsCont(b[4])
      THEN LET cp == (x - 240) * 262144 + (b[2] - 128) * 4096
                     + (b[3] - 128) * 64 + (b[4] - 128) IN
           (IF cp < 65536 \/ cp > 1114111 THEN ReplacementChar
            ELSE <<55296 + ((cp - 65536) \div 1024),
                   56320 + ((cp - 65536) % 1024)>>)
           \o utf8Decode(SubSeq(b, 5, Len(b)))
    ELSE ReplacementChar \o utf8Decode(Tail(b))

\* "0123456789abcdef"
HexDigits == <<48, 49, 50, 51, 52, 53, 54, 55, 56, 57, 97, 98, 99, 100, 101, 102>>

IsHexChar(c) ==
  (c >= 48 /\ c <= 57) \/ (c >= 97 /\ c <= 102) \/ (c >= 65 /\ c <= 70)

HexVal(c) ==
  IF c >= 48 /\ c <= 57 THEN c - 48
  ELSE IF c >= 97 /\ c <= 102 THEN c - 87
  ELSE c - 55

RECURSIVE toHex(_)
\* buf.toString('hex'): two lowercase digits per byte
toHex(b) ==
  IF b = <<>> THEN <<>>
  ELSE <<HexDigits[(Head(b) \div 16) + 1], HexDigits[(Head(b) % 16) + 1]>>
       \o toHex(Tail(b))

RECURSIVE fromHex(_)
\* Buffer.from(s, 'hex'): decodes pairs of digits and stops, without an
\* error, at the first pair that is not two hex digits (or at a lone
\* trailing character)
fromHex(s) ==
  IF Len(s) < 2 THEN <<>>
  ELSE IF IsHexChar(s[1]) /\ IsHexChar(s[2])
    THEN <<HexVal(s[1]) * 16 + HexVal(s[2])>> \o fromHex(SubSeq(s, 3, Len(s)))
  ELSE <<>>

\* F of the value of e: a const of the code, whose value is computed once
\* where it is declared
With(e, F(_)) == CHOOSE y \in {F(x) : x \in {e}} : TRUE

RECURSIVE SumTo(_, _, _)
\* sum of (i * k + 1) * b[i] over the first n bytes
SumTo(b, k, n) ==
  IF n = 0 THEN 0 ELSE (n * k + 1) * b[n] + SumTo(b, k, n - 1)

\* sum of (i + w) * b[i]
WeightedSum(b, w) ==
  With(b, LAMBDA bytes :
    With(SumTo(bytes, 0, Len(bytes)), LAMBDA s0 :
      SumTo(bytes, 1, Len(bytes)) - s0 + w * s0))

(***************************************************************************)
(* CryptoService                                                           *)
(***************************************************************************)

\* randomBytes(16)
IvLength == 16
\* the length of the tag cipher.getAuthTag() returns for aes-256-gcm
AuthTagLength == 16
\* the key length of aes-256-gcm
KeyLength == 32
\* a key string of this many hex digits is taken as the key itself
HexKeyLength == 64

\* crypto.createHash('sha256').update(key).digest(): a 32-byte digest.  The
\* hash is a library function; the model keeps what the code relies on: it
\* is a function of its input and gives KeyLength bytes.
sha256(msg) ==
  With(msg, LAMBDA m :
    With(WeightedSum(m, 0), LAMBDA s0 :
      With(WeightedSum(m, 1) - s0, LAMBDA s1 :
        [j \in 1..KeyLength |-> (Len(m) * 31 + s0 + j * s1 + 97 * j) % 256])))

normalizeKey(key) ==
  IF Len(key) = HexKeyLength /\ \A i \in 1..Len(key) : IsHexChar(key[i])
    THEN fromHex(key)
    ELSE sha256(utf8Encode(key))

\* aes-256-gcm is a library cipher.  The model keeps its shape: a stream
\* cipher (the ciphertext is the plaintext XOR a keystream that key and IV
\* determine, byte for byte) with a detached 16-byte tag over key, IV and
\* ciphertext.  Every byte of key, IV and ciphertext counts in every byte of
\* the tag with an odd weight, so that the tag of the model, as the one of
\* GCM, differs whenever one byte of one of them differs.
Keystream(seed, i) == (seed + 13 * i + 1) % 256

GcmCrypt(key, iv, data) ==
  With(WeightedSum(key, 0) + 7 * WeightedSum(iv, 1), LAMBDA seed :
    With(data, LAMBDA d :
      [i \in 1..Len(d) |-> BitXor(d[i], Keystream(seed, i), 8)]))

\* mutant: the tag does not depend on the key
GcmTag_keyless(key, iv, ct) ==
  LET t0 == 3 * SumTo(iv, 2, Len(iv)) + 5 * SumTo(ct, 2, Len(ct))
      t1 == 2 * (3 * SumTo(iv, 0, Len(iv)) + 5 * SumTo(ct, 0, Len(ct)))
  IN [j \in 1..AuthTagLength |-> (t0 + j * t1 + 11 * Len(ct) + j) % 256]

GcmTag(key, iv, ct) ==
  With(<<key, iv, ct>>, LAMBDA a :
    With(SumTo(a[1], 2, Len(a[1])) + 3 * SumTo(a[2], 2, Len(a[2]))
           + 5 * SumTo(a[3], 2, Len(a[3])), LAMBDA t0 :
      With(2 * (SumTo(a[1], 0, Len(a[1])) + 3 * SumTo(a[2], 0, Len(a[2]))
                  + 5 * SumTo(a[3], 0, Len(a[3]))), LAMBDA t1 :
        [j \in 1..AuthTagLength |-> (t0 + j * t1 + 11 * Len(a[3]) + j) % 256])))

\* the tag lengths decipher.setAuthTag accepts for GCM
ValidTagLengths == {4, 8, 12, 13, 14, 15, 16}

\* mutant: the IV is sixteen zero bytes, not the bytes drawn
encrypt_fixedIv(value, secretKey, iv) ==
  LET normalizedKey == normalizeKey(secretKey)
      zero == [i \in 1..IvLength |-> 0]
      ct == GcmCrypt(normalizedKey, zero, utf8Encode(value))
  IN [encryptedValue |-> toHex(ct),
      iv |-> toHex(zero),
      authTag |-> toHex(GcmTag(normalizedKey, zero, ct))]

\* CryptoService.encrypt; iv is the value randomBytes(16) returned
encrypt(value, secretKey, iv) ==
  With(normalizeKey(secretKey), LAMBDA normalizedKey :
    With(GcmCrypt(normalizedKey, iv, utf8Encode(value)), LAMBDA ct :
      [encryptedValue |-> toHex(ct),
       iv |-> toHex(iv),
       authTag |-> toHex(GcmTag(normalizedKey, iv, ct))]))

\* mutant: final does not compare the tag
decrypt_noTagCheck(encryptedData, secretKey) ==
  LET normalizedKey == normalizeKey(secretKey)
      iv == fromHex(encryptedData.iv)
      authTag == fromHex(encryptedData.authTag)
      ct == fromHex(encryptedData.encryptedValue)
  IN IF /\ Len(iv) > 0
        /\ Len(authTag) \in ValidTagLengths
        /\ Len(encryptedData.encryptedValue) % 2 = 0
       THEN [ok |-> TRUE, value |-> utf8Decode(GcmCrypt(normalizedKey, iv, ct))]
       ELSE [ok |-> FALSE, value |-> <<>>]

\* CryptoService.decrypt; ok = FALSE stands for the Error it throws.
\* createDecipheriv throws on an empty IV, setAuthTag on a tag of a length
\* GCM does not have, update on a hex string of odd length, final on a tag
\* that does not match.
decrypt(encryptedData, secretKey) ==
  With(normalizeKey(secretKey), LAMBDA normalizedKey :
    With(fromHex(encryptedData.iv), LAMBDA iv :
      With(fromHex(encryptedData.authTag), LAMBDA authTag :
        With(fromHex(encryptedData.encryptedValue), LAMBDA ct :
          IF /\ Len(iv) > 0
             /\ Len(authTag) \in ValidTagLengths
             /\ Len(encryptedData.encryptedValue) % 2 = 0
             /\ authTag = SubSeq(GcmTag(normalizedKey, iv, ct), 1, Len(authTag))
            THEN [ok |-> TRUE,
                  value |-> utf8Decode(GcmCrypt(normalizedKey, iv, ct))]
            ELSE [ok |-> FALSE, value |-> <<>>]))))

(***************************************************************************)
(* JSON text of a cipher bundle                                            *)
(***************************************************************************)

\* {"encryptedValue":"
JsonHead == <<123, 34, 101, 110, 99, 114, 121, 112, 116, 101, 100, 86, 97, 108,
              117, 101, 34, 58, 34>>
\* ","iv":"
JsonIv == <<34, 44, 34, 105, 118, 34, 58, 34>>
\* ","authTag":"
JsonAuthTag == <<34, 44, 34, 97, 117, 116, 104, 84, 97, 103, 34, 58, 34>>
\* "}
JsonTail == <<34, 125>>

\* JSON.stringify of {encryptedValue, iv, authTag}; the three values are hex
\* strings, so nothing is escaped
JSONstringify(e) ==
  JsonHead \o e.encryptedValue \o JsonIv \o e.iv \o JsonAuthTag \o e.authTag
  \o JsonTail

StartsWith(s, p) == Len(s) >= Len(p) /\ SubSeq(s, 1, Len(p)) = p

RECURSIVE UntilQuote(_)
\* the characters of s before its first double quote
UntilQuote(s) ==
  IF s = <<>> \/ Head(s) = 34 THEN <<>> ELSE <<Head(s)>> \o UntilQuote(Tail(s))

\* JSON.parse of a stored value, for the one shape the store holds: an
\* object of three string members.  ok = FALSE stands for a text that does
\* not parse to such an object.
JSONparse(text) ==
  IF ~StartsWith(text, JsonHead) THEN [ok |-> FALSE]
  ELSE
  With(SubSeq(text, Len(JsonHead) + 1, Len(text)), LAMBDA r1 :
  With(UntilQuote(r1), LAMBDA ev :
  With(SubSeq(r1, Len(ev) + 1, Len(r1)), LAMBDA r2 :
    IF ~StartsWith(r2, JsonIv) THEN [ok |-> FALSE]
    ELSE
    With(SubSeq(r2, Len(JsonIv) + 1, Len(r2)), LAMBDA r3 :
    With(UntilQuote(r3), LAMBDA iv :
    With(SubSeq(r3, Len(iv) + 1, Len(r3)), LAMBDA r4 :
      IF ~StartsWith(r4, JsonAuthTag) THEN [ok |-> FALSE]
      ELSE
      With(SubSeq(r4, Len(JsonAuthTag) + 1, Len(r4)), LAMBDA r5 :
      With(UntilQuote(r5), LAMBDA tag :
      With(SubSeq(r5, Len(tag) + 1, Len(r5)), LAMBDA r6 :
        IF r6 # JsonTail THEN [ok |-> FALSE]
        ELSE [ok |-> TRUE, encryptedValue |-> ev, iv |-> iv,
              authTag |-> tag])))))))))

(***************************************************************************)
(* JavaScript values of a request body                                     *)
(***************************************************************************)

JsUndefined == [t |-> "undefined", v |-> <<>>]
JsString(s) == [t |-> "string", v |-> s]
JsNumber(n) == [t |-> "number", v |-> <<n>>]

\* !x is false
Truthy(x) ==
  CASE x.t = "undefined" -> FALSE
    [] x.t = "string" -> x.v # <<>>
    [] x.t = "number" -> x.v[1] # 0

\* typeof x === 'string'
IsString(x) == x.t = "string"

\* space, tab, line feed, carriage return
IsSpace(c) == c \in {32, 9, 10, 13}

RECURSIVE trimStart(_)
trimStart(s) ==
  IF s # <<>> /\ IsSpace(Head(s)) THEN trimStart(Tail(s)) ELSE s

RECURSIVE trimEnd(_)
trimEnd(s) ==
  IF s # <<>> /\ IsSpace(s[Len(s)]) THEN trimEnd(SubSeq(s, 1, Len(s) - 1)) ELSE s

\* String.prototype.trim
trim(s) == trimEnd(trimStart(s))

(***************************************************************************)
(* State                                                                   *)
(***************************************************************************)

VARIABLES
  projects,        \* table "projects": a set of rows
  secrets,         \* table "secrets": a set of rows
  nextProjectId,   \* the next project id the database hands out
  nextSecretId,    \* the next secret id the database hands out
  now,             \* the database clock
  env,             \* process.env.ENCRYPTION_KEY ("" when unset)
  reqs,            \* the handler invocation each connection is running
  written,         \* history: secret id -> the plaintext of its last write
  deleted,         \* history: the secret ids a deleteSecret answered 200 for
  crypto           \* a caller of the crypto service and what it was returned

vars ==
  <<projects, secrets, nextProjectId, nextSecretId, now, env, reqs, written,
    deleted, crypto>>

\* createProject and createSecret are admitted while the database has handed
\* out fewer ids than this
MaxProjects == 1
MaxSecrets == 1

\* connections served concurrently
Slots == {1, 2}

\* req.user is undefined
NoUser == ""
Users == {"u1", "u2"}

\* 'default-key-for-development'
DefaultKey == <<100, 101, 102, 97, 117, 108, 116, 45, 107, 101, 121, 45, 102,
                111, 114, 45, 100, 101, 118, 101, 108, 111, 112, 109, 101, 110,
                116>>

\* mutant: the key depends on when it is read
encryptionKey_byClock == IF now % 2 = 0 THEN DefaultKey ELSE <<107>>

\* process.env.ENCRYPTION_KEY || 'default-key-for-development'
encryptionKey == IF env # <<>> THEN env ELSE DefaultKey

\* the values randomBytes(16) is taken to return
IvSeeds == {1, 2}
IvOf(seed) == [i \in 1..IvLength |-> (seed * 17 + i * 29) % 256]
RandomIvs == {IvOf(seed) : seed \in IvSeeds}

\* mutant: the value is stored as it came
encryptSecretValue_plain(value, iv) == value

\* encryptSecretValue; iv is what randomBytes returned inside encrypt
encryptSecretValue(value, iv) ==
  JSONstringify(encrypt(value, encryptionKey, iv))

\* decryptSecretValue; ok = FALSE stands for
\* Error('Failed to decrypt secret value')
decryptSecretValue(encryptedData) ==
  With(JSONparse(encryptedData), LAMBDA encrypted :
    IF ~encrypted.ok THEN [ok |-> FALSE, value |-> <<>>]
    ELSE decrypt(encrypted, encryptionKey))

(***************************************************************************)
(* The database (Prisma calls)                                             *)
(***************************************************************************)

\* mutant: the project is looked up by id alone
projectFindFirst_anyOwner(id, userId) == {p \in projects : p.id = id}

\* prisma.project.findFirst({ where: { id, userId } }): the rows found
\* (none stands for null)
projectFindFirst(id, userId) ==
  {p \in projects : p.id = id /\ p.userId = userId}

\* mutant: the lookup is by id alone
checkProjectOwnership_anyOwner(projectId, userId) ==
  {p \in projects : p.id = projectId}

\* checkProjectOwnership
checkProjectOwnership(projectId, userId) == projectFindFirst(projectId, userId)

\* prisma.secret.findFirst({ where: { projectId, key } })
secretFindByKey(projectId, key) ==
  {s \in secrets : s.projectId = projectId /\ s.key = key}

\* mutant: the lookup is by id alone
secretFindById_anyProject(secretId, projectId) ==
  {s \in secrets : s.id = secretId}

\* prisma.secret.findFirst({ where: { id: secretId, projectId } })
secretFindById(secretId, projectId) ==
  {s \in secrets : s.id = secretId /\ s.projectId = projectId}

\* mutant: the unique index is on the key alone
UniqueViolation_anyProject(projectId, key) == \E s \in secrets : s.key = key

\* mutant: no unique index
UniqueViolation_none(projectId, key) == FALSE

\* the unique index secrets_projectId_key_key refuses the row
UniqueViolation(projectId, key) ==
  \E s \in secrets : s.projectId = projectId /\ s.key = key

\* the foreign key secrets_projectId_fkey refuses the row
ForeignKeyViolation(projectId) == \A p \in projects : p.id # projectId

\* mutant: no select, the whole row is returned
SelectMeta_all(s) == s

\* select: { id, key, createdAt, updatedAt }
SelectMeta(s) ==
  [id |-> s.id, key |-> s.key, createdAt |-> s.createdAt,
   updatedAt |-> s.updatedAt]

RECURSIVE OrderByCreatedAtAsc(_)
\* mutant: orderBy: { createdAt: 'asc' }
OrderByCreatedAtAsc(rows) ==
  IF rows = {} THEN <<>>
  ELSE LET first == CHOOSE s \in rows :
                       \A o \in rows : o.createdAt > s.createdAt
                                       \/ (o.createdAt = s.createdAt /\ o.id >= s.id)
       IN <<first>> \o OrderByCreatedAtAsc(rows \ {first})

RECURSIVE OrderByCreatedAtDesc(_)
\* orderBy: { createdAt: 'desc' }
OrderByCreatedAtDesc(rows) ==
  IF rows = {} THEN <<>>
  ELSE LET first == CHOOSE s \in rows :
                       \A o \in rows : o.createdAt < s.createdAt
                                       \/ (o.createdAt = s.createdAt /\ o.id <= s.id)
       IN <<first>> \o OrderByCreatedAtDesc(rows \ {first})

(***************************************************************************)
(* Requests and responses                                                  *)
(***************************************************************************)

\* the response res.status(status).json(...) sends; members lists the members
\* of the JSON body
ErrorResponse(status, error) ==
  [status |-> status, members |-> {"error"}, error |-> error, message |-> "",
   secret |-> <<>>, secrets |-> <<>>]

MessageResponse(status, message) ==
  [status |-> status, members |-> {"message"}, error |-> "", message |-> message,
   secret |-> <<>>, secrets |-> <<>>]

SecretResponse(status, message, secret) ==
  [status |-> status,
   members |-> IF message = "" THEN {"secret"} ELSE {"message", "secret"},
   error |-> "", message |-> message, secret |-> <<secret>>, secrets |-> <<>>]

ListResponse(list) ==
  [status |-> 200, members |-> {"secrets"}, error |-> "", message |-> "",
   secret |-> <<>>, secrets |-> list]

NoResponse ==
  [status |-> 0, members |-> {}, error |-> "", message |-> "",
   secret |-> <<>>, secrets |-> <<>>]

Unauthenticated == ErrorResponse(401, "User not authenticated")
ProjectNotFound == ErrorResponse(404, "Project not found")
SecretNotFound == ErrorResponse(404, "Secret not found")
InternalError == ErrorResponse(500, "Internal server error")

\* whether the project the caller addresses is his, another's, or nobody's
ProjectStatus(projectId, user) ==
  IF \E p \in projects : p.id = projectId /\ p.userId = user THEN "owned"
  ELSE IF \E p \in projects : p.id = projectId THEN "foreign"
  ELSE "absent"

\* a handler invocation: the request, where the handler stands (pc), its
\* locals, the response it sent, and the history of what it called (trace),
\* of the project's status when the handler decided (pstat) and of the
\* secrets whose delete had been answered 200 when it arrived (gone), and of
\* the plaintext last written to the secret it read (read)
Idle ==
  [op |-> "none", user |-> NoUser, projectId |-> 0, secretId |-> 0,
   key |-> JsUndefined, value |-> JsUndefined, name |-> JsUndefined,
   pc |-> "idle", encryptedValue |-> <<>>, res |-> NoResponse,
   trace |-> <<>>, pstat |-> "", gone |-> {}, read |-> <<>>]

\* the invocation as the request arrives
Arrive(op, user, projectId, secretId, key, value, name) ==
  [Idle EXCEPT !.op = op, !.user = user, !.projectId = projectId,
               !.secretId = secretId, !.key = key, !.value = value,
               !.name = name, !.pc = "arrived",
               !.pstat = ProjectStatus(projectId, user),
               !.gone = deleted]

\* the handler returns: its locals are gone, the response is sent
Respond(q, res) == [q EXCEPT !.pc = "done", !.res = res, !.encryptedValue = <<>>]
\* mutant: the handler does not go on after the await
Goto_stay(q, pc) == q

Goto(q, pc) == [q EXCEPT !.pc = pc]
Log(q, event) == [q EXCEPT !.trace = Append(@, event)]

\* mutant: the check of req.user is missing
Authenticated_always(user) == TRUE

\* req.user is set
Authenticated(user) == user # NoUser

\* the connection is free to take a request
Free(r) == reqs[r].pc \in {"idle", "done"}

\* mutant: the 404 return is missing
OwnershipPassed_always(project) == TRUE

\* if (!project) return 404
OwnershipPassed(project) == project # {}

\* the ownership step every secret handler takes: await
\* checkProjectOwnership(projectId, req.user.userId), 404 when it is null
OwnershipStep(q, next) ==
  LET project == checkProjectOwnership(q.projectId, q.user)
      q1 == [Log(q, "project.findFirst") EXCEPT
               !.pstat = ProjectStatus(q.projectId, q.user)]
      q2 == IF project # {} THEN Log(q1, "ownership:ok") ELSE q1
  IN IF OwnershipPassed(project) THEN Goto(q2, next)
     ELSE Respond(q2, ProjectNotFound)

\* mutant: a step that only reads empties table "secrets"
StoreUnchanged_wipe ==
  /\ secrets' = {}
  /\ UNCHANGED <<projects, nextProjectId, nextSecretId, now, env, crypto,
                 written, deleted>>

StoreUnchanged ==
  UNCHANGED <<projects, secrets, nextProjectId, nextSecretId, now, env, crypto, written,
              deleted>>

(***************************************************************************)
(* createProject                                                           *)
(***************************************************************************)

\* !name || name.trim().length === 0
createProjectInvalid(name) ==
  ~Truthy(name) \/ (IsString(name) /\ Len(trim(name.v)) = 0)

createProject(r, user, name) ==
  /\ Free(r)
  /\ nextProjectId <= MaxProjects
  /\ LET q == Arrive("createProject", user, 0, 0, JsUndefined, JsUndefined, name)
     IN reqs' = [reqs EXCEPT ![r] =
          IF ~Authenticated(user) THEN Respond(q, Unauthenticated)
          ELSE IF createProjectInvalid(name)
            THEN Respond(q, ErrorResponse(400, "Project name is required"))
          ELSE Goto(q, "createProject:create")]
  /\ StoreUnchanged

\* prisma.project.create and the 201 response
createProject_create(r) ==
  LET q == reqs[r] IN
  /\ q.pc = "createProject:create"
  /\ projects' = projects \cup
       {[id |-> nextProjectId, userId |-> q.user, name |-> trim(q.name.v)]}
  /\ nextProjectId' = nextProjectId + 1
  /\ reqs' = [reqs EXCEPT ![r] =
       Respond(Log(q, "project.create"),
               MessageResponse(201, "Project created successfully"))]
  /\ UNCHANGED <<secrets, nextSecretId, now, env, crypto, written, deleted>>

(***************************************************************************)
(* getSecrets                                                              *)
(***************************************************************************)

getSecrets(r, user, projectId) ==
  /\ Free(r)
  /\ LET q == Arrive("getSecrets", user, projectId, 0, JsUndefined, JsUndefined,
                     JsUndefined)
     IN reqs' = [reqs EXCEPT ![r] =
          IF ~Authenticated(user) THEN Respond(q, Unauthenticated)
          ELSE Goto(q, "getSecrets:ownership")]
  /\ StoreUnchanged

getSecrets_ownership(r) ==
  /\ reqs[r].pc = "getSecrets:ownership"
  /\ reqs' = [reqs EXCEPT ![r] = OwnershipStep(reqs[r], "getSecrets:findMany")]
  /\ StoreUnchanged

\* prisma.secret.findMany({ where: { projectId }, select, orderBy })
getSecrets_findMany(r) ==
  LET q == reqs[r]
      rows == OrderByCreatedAtDesc({s \in secrets : s.projectId = q.projectId})
  IN
  /\ q.pc = "getSecrets:findMany"
  /\ reqs' = [reqs EXCEPT ![r] =
       Respond(Log(q, "secret.findMany"),
               ListResponse([i \in 1..Len(rows) |-> SelectMeta(rows[i])]))]
  /\ StoreUnchanged

(***************************************************************************)
(* createSecret                                                            *)
(***************************************************************************)

\* mutant: the typeof check is missing
createSecretInvalid_untyped(key, value) ==
  IF ~Truthy(key) \/ ~Truthy(value) THEN "Secret key and value are required"
  ELSE IF Len(trim(key.v)) = 0 THEN "Secret key cannot be empty"
  ELSE ""

\* the three validation returns of createSecret: the error, "" when valid
createSecretInvalid(key, value) ==
  IF ~Truthy(key) \/ ~Truthy(value) THEN "Secret key and value are required"
  ELSE IF ~IsString(key) \/ ~IsString(value)
    THEN "Secret key and value must be strings"
  ELSE IF Len(trim(key.v)) = 0 THEN "Secret key cannot be empty"
  ELSE ""

createSecret(r, user, projectId, key, value) ==
  /\ Free(r)
  /\ nextSecretId <= MaxSecrets
  /\ LET q == Arrive("createSecret", user, projectId, 0, key, value, JsUndefined)
     IN reqs' = [reqs EXCEPT ![r] =
          IF ~Authenticated(user) THEN Respond(q, Unauthenticated)
          ELSE IF createSecretInvalid(key, value) # ""
            THEN Respond(q, ErrorResponse(400, createSecretInvalid(key, value)))
          ELSE Goto(q, "createSecret:ownership")]
  /\ StoreUnchanged

createSecret_ownership(r) ==
  /\ reqs[r].pc = "createSecret:ownership"
  /\ reqs' = [reqs EXCEPT ![r] = OwnershipStep(reqs[r], "createSecret:findFirst")]
  /\ StoreUnchanged

\* prisma.secret.findFirst({ where: { projectId, key } }), the 409, and
\* encryptSecretValue(value)
createSecret_findFirst(r) ==
  LET q == Log(reqs[r], "secret.findFirst")
      existingSecret == secretFindByKey(q.projectId, q.key.v)
  IN
  /\ reqs[r].pc = "createSecret:findFirst"
  /\ \E iv \in RandomIvs :
       reqs' = [reqs EXCEPT ![r] =
         IF existingSecret # {}
           THEN Respond(q, ErrorResponse(409,
                             "Secret key already exists in this project"))
         ELSE [Goto(Log(q, "encrypt"), "createSecret:create") EXCEPT
                 !.encryptedValue = encryptSecretValue(q.value.v, iv)]]
  /\ StoreUnchanged

\* prisma.secret.create and the 201 response; the insert throws when the
\* unique index or the foreign key refuses the row, and the catch answers 500
createSecret_create(r) ==
  LET q == Log(reqs[r], "secret.create") IN
  /\ reqs[r].pc = "createSecret:create"
  /\ IF UniqueViolation(q.projectId, q.key.v)
       THEN /\ reqs' = [reqs EXCEPT ![r] =
                 Respond(Log(q, "throw:unique"), InternalError)]
            /\ UNCHANGED <<secrets, nextSecretId, now, written>>
     ELSE IF ForeignKeyViolation(q.projectId)
       THEN /\ reqs' = [reqs EXCEPT ![r] =
                 Respond(Log(q, "throw:foreignKey"), InternalError)]
            /\ UNCHANGED <<secrets, nextSecretId, now, written>>
       ELSE LET row == [id |-> nextSecretId, key |-> q.key.v,
                        value |-> q.encryptedValue, projectId |-> q.projectId,
                        createdAt |-> now, updatedAt |-> now]
            IN /\ secrets' = secrets \cup {row}
               /\ nextSecretId' = nextSecretId + 1
               /\ now' = now + 1
               /\ written' = [written EXCEPT ![row.id] = q.value.v]
               /\ reqs' = [reqs EXCEPT ![r] =
                    Respond(q, SecretResponse(201, "Secret created successfully",
                                              SelectMeta(row)))]
  /\ UNCHANGED <<projects, nextProjectId, env, crypto, deleted>>

(***************************************************************************)
(* getSecret                                                               *)
(***************************************************************************)

getSecret(r, user, projectId, secretId) ==
  /\ Free(r)
  /\ LET q == Arrive("getSecret", user, projectId, secretId, JsUndefined,
                     JsUndefined, JsUndefined)
     IN reqs' = [reqs EXCEPT ![r] =
          IF ~Authenticated(user) THEN Respond(q, Unauthenticated)
          ELSE Goto(q, "getSecret:ownership")]
  /\ StoreUnchanged

getSecret_ownership(r) ==
  /\ reqs[r].pc = "getSecret:ownership"
  /\ reqs' = [reqs EXCEPT ![r] = OwnershipStep(reqs[r], "getSecret:findFirst")]
  /\ StoreUnchanged

\* prisma.secret.findFirst({ where: { id: secretId, projectId } }), the 404,
\* decryptSecretValue(secret.value) and the response; a decryption error is
\* caught and answered 500
getSecret_findFirst(r) ==
  LET q == Log(reqs[r], "secret.findFirst")
      found == secretFindById(q.secretId, q.projectId)
  IN
  /\ reqs[r].pc = "getSecret:findFirst"
  /\ reqs' = [reqs EXCEPT ![r] =
       IF found = {} THEN Respond(q, SecretNotFound)
       ELSE LET secret == CHOOSE s \in found : TRUE
                decrypted == decryptSecretValue(secret.value)
                q1 == [Log(q, "decrypt") EXCEPT !.read = <<written[secret.id]>>]
            IN IF ~decrypted.ok THEN Respond(q1, InternalError)
               ELSE Respond(q1, SecretResponse(200, "",
                      [id |-> secret.id, key |-> secret.key,
                       value |-> decrypted.value,
                       createdAt |-> secret.createdAt,
                       updatedAt |-> secret.updatedAt]))]
  /\ StoreUnchanged

(***************************************************************************)
(* updateSecret                                                            *)
(***************************************************************************)

\* !value || typeof value !== 'string'
updateSecretInvalid(value) == ~Truthy(value) \/ ~IsString(value)

updateSecret(r, user, projectId, secretId, value) ==
  /\ Free(r)
  /\ LET q == Arrive("updateSecret", user, projectId, secretId, JsUndefined,
                     value, JsUndefined)
     IN reqs' = [reqs EXCEPT ![r] =
          IF ~Authenticated(user) THEN Respond(q, Unauthenticated)
          ELSE IF updateSecretInvalid(value)
            THEN Respond(q, ErrorResponse(400,
                              "Secret value is required and must be a string"))
          ELSE Goto(q, "updateSecret:ownership")]
  /\ StoreUnchanged

updateSecret_ownership(r) ==
  /\ reqs[r].pc = "updateSecret:ownership"
  /\ reqs' = [reqs EXCEPT ![r] = OwnershipStep(reqs[r], "updateSecret:findFirst")]
  /\ StoreUnchanged

\* prisma.secret.findFirst({ where: { id: secretId, projectId } }), the 404,
\* and encryptSecretValue(value)
updateSecret_findFirst(r) ==
  LET q == Log(reqs[r], "secret.findFirst")
      existingSecret == secretFindById(q.secretId, q.projectId)
  IN
  /\ reqs[r].pc = "updateSecret:findFirst"
  /\ \E iv \in RandomIvs :
       reqs' = [reqs EXCEPT ![r] =
         IF existingSecret = {} THEN Respond(q, SecretNotFound)
         ELSE [Goto(Log(q, "encrypt"), "updateSecret:update") EXCEPT
                 !.encryptedValue = encryptSecretValue(q.value.v, iv)]]
  /\ StoreUnchanged

\* mutant: the update also writes the key
secretUpdate_rekey(secretId, encryptedValue) ==
  {IF s.id = secretId
     THEN [s EXCEPT !.value = encryptedValue, !.updatedAt = now, !.key = <<>>]
     ELSE s : s \in secrets}

\* the rows of table "secrets" after
\* prisma.secret.update({ where: { id: secretId }, data: { value } })
secretUpdate(secretId, encryptedValue) ==
  {IF s.id = secretId
     THEN [s EXCEPT !.value = encryptedValue, !.updatedAt = now]
     ELSE s : s \in secrets}

\* prisma.secret.update and the response; update throws when no row has the
\* id, and the catch answers 500
updateSecret_update(r) ==
  LET q == Log(reqs[r], "secret.update") IN
  /\ reqs[r].pc = "updateSecret:update"
  /\ IF \A s \in secrets : s.id # q.secretId
       THEN /\ reqs' = [reqs EXCEPT ![r] = Respond(q, InternalError)]
            /\ UNCHANGED <<secrets, written>>
       ELSE /\ secrets' = secretUpdate(q.secretId, q.encryptedValue)
            /\ written' = [written EXCEPT ![q.secretId] = q.value.v]
            /\ reqs' = [reqs EXCEPT ![r] =
                 Respond(q, SecretResponse(200, "Secret updated successfully",
                   SelectMeta(CHOOSE s \in secrets' : s.id = q.secretId)))]
  /\ UNCHANGED <<projects, nextProjectId, nextSecretId, now, env, crypto, deleted>>

(***************************************************************************)
(* deleteSecret                                                            *)
(***************************************************************************)

deleteSecret(r, user, projectId, secretId) ==
  /\ Free(r)
  /\ LET q == Arrive("deleteSecret", user, projectId, secretId, JsUndefined,
                     JsUndefined, JsUndefined)
     IN reqs' = [reqs EXCEPT ![r] =
          IF ~Authenticated(user) THEN Respond(q, Unauthenticated)
          ELSE Goto(q, "deleteSecret:ownership")]
  /\ StoreUnchanged

deleteSecret_ownership(r) ==
  /\ reqs[r].pc = "deleteSecret:ownership"
  /\ reqs' = [reqs EXCEPT ![r] = OwnershipStep(reqs[r], "deleteSecret:findFirst")]
  /\ StoreUnchanged

\* prisma.secret.findFirst({ where: { id: secretId, projectId } }) and the 404
deleteSecret_findFirst(r) ==
  LET q == Log(reqs[r], "secret.findFirst")
      existingSecret == secretFindById(q.secretId, q.projectId)
  IN
  /\ reqs[r].pc = "deleteSecret:findFirst"
  /\ reqs' = [reqs EXCEPT ![r] =
       IF existingSecret = {} THEN Respond(q, SecretNotFound)
       ELSE Goto(q, "deleteSecret:delete")]
  /\ StoreUnchanged

\* mutant: the row stays
secretDelete_keep(secretId) == secrets

\* the rows of table "secrets" after
\* prisma.secret.delete({ where: { id: secretId } })
secretDelete(secretId) == {s \in secrets : s.id # secretId}

\* prisma.secret.delete and the response; delete throws when no row has the
\* id, and the catch answers 500
deleteSecret_delete(r) ==
  LET q == Log(reqs[r], "secret.delete") IN
  /\ reqs[r].pc = "deleteSecret:delete"
  /\ IF \A s \in secrets : s.id # q.secretId
       THEN /\ reqs' = [reqs EXCEPT ![r] = Respond(q, InternalError)]
            /\ UNCHANGED <<secrets, deleted>>
       ELSE /\ secrets' = secretDelete(q.secretId)
            /\ deleted' = deleted \cup {q.secretId}
            /\ reqs' = [reqs EXCEPT ![r] =
                 Respond(q, MessageResponse(200, "Secret deleted successfully"))]
  /\ UNCHANGED <<projects, nextProjectId, nextSecretId, now, env, crypto, written>>

(***************************************************************************)
(* getProject and updateProject                                            *)
(***************************************************************************)

\* res.json({ project }) and res.json({ message, project })
ProjectResponse(message) ==
  [status |-> 200,
   members |-> IF message = "" THEN {"project"} ELSE {"message", "project"},
   error |-> "", message |-> message, secret |-> <<>>, secrets |-> <<>>]

getProject(r, user, projectId) ==
  /\ Free(r)
  /\ LET q == Arrive("getProject", user, projectId, 0, JsUndefined, JsUndefined,
                     JsUndefined)
     IN reqs' = [reqs EXCEPT ![r] =
          IF ~Authenticated(user) THEN Respond(q, Unauthenticated)
          ELSE Goto(q, "getProject:findFirst")]
  /\ StoreUnchanged

\* prisma.project.findFirst({ where: { id, userId }, select }), the 404 and
\* the response
getProject_findFirst(r) ==
  LET q == [Log(reqs[r], "project.findFirst") EXCEPT
              !.pstat = ProjectStatus(reqs[r].projectId, reqs[r].user)]
      project == projectFindFirst(q.projectId, q.user)
  IN
  /\ reqs[r].pc = "getProject:findFirst"
  /\ reqs' = [reqs EXCEPT ![r] =
       IF project = {} THEN Respond(q, ProjectNotFound)
       ELSE Respond(q, ProjectResponse(""))]
  /\ StoreUnchanged

\* name !== undefined && name.trim().length === 0: "empty" when it holds,
\* "throw" when name is neither undefined nor a string (name.trim is not a
\* function: a TypeError, which the catch answers 500), "" otherwise.
\* body.description, trimmed and written the same way, is left out.
updateProjectInvalid(name) ==
  IF name = JsUndefined THEN ""
  ELSE IF ~IsString(name) THEN "throw"
  ELSE IF Len(trim(name.v)) = 0 THEN "empty"
  ELSE ""

updateProject(r, user, projectId, name) ==
  /\ Free(r)
  /\ LET q == Arrive("updateProject", user, projectId, 0, JsUndefined,
                     JsUndefined, name)
     IN reqs' = [reqs EXCEPT ![r] =
          IF ~Authenticated(user) THEN Respond(q, Unauthenticated)
          ELSE IF updateProjectInvalid(name) = "empty"
            THEN Respond(q, ErrorResponse(400, "Project name cannot be empty"))
          ELSE IF updateProjectInvalid(name) = "throw"
            THEN Respond(q, InternalError)
          ELSE Goto(q, "updateProject:findFirst")]
  /\ StoreUnchanged

\* prisma.project.findFirst({ where: { id, userId } }) and the 404
updateProject_findFirst(r) ==
  LET q == [Log(reqs[r], "project.findFirst") EXCEPT
              !.pstat = ProjectStatus(reqs[r].projectId, reqs[r].user)]
      existingProject == projectFindFirst(q.projectId, q.user)
  IN
  /\ reqs[r].pc = "updateProject:findFirst"
  /\ reqs' = [reqs EXCEPT ![r] =
       IF existingProject = {} THEN Respond(q, ProjectNotFound)
       ELSE Goto(q, "updateProject:update")]
  /\ StoreUnchanged

\* mutant: the update also writes the owner
projectUpdate_reown(id, name) ==
  {IF p.id = id
     THEN [p EXCEPT !.userId = "u2",
                    !.name = IF name = JsUndefined THEN @ ELSE trim(name.v)]
     ELSE p : p \in projects}

\* the rows of table "projects" after
\* prisma.project.update({ where: { id }, data: { name, description } })
projectUpdate(id, name) ==
  {IF p.id = id
     THEN [p EXCEPT !.name = IF name = JsUndefined THEN @ ELSE trim(name.v)]
     ELSE p : p \in projects}

\* prisma.project.update and the response; update throws when no row has
\* the id, and the catch answers 500
updateProject_update(r) ==
  LET q == Log(reqs[r], "project.update") IN
  /\ reqs[r].pc = "updateProject:update"
  /\ IF \A p \in projects : p.id # q.projectId
       THEN /\ reqs' = [reqs EXCEPT ![r] = Respond(q, InternalError)]
            /\ UNCHANGED projects
       ELSE /\ projects' = projectUpdate(q.projectId, q.name)
            /\ reqs' = [reqs EXCEPT ![r] =
                 Respond(q, ProjectResponse("Project updated successfully"))]
  /\ UNCHANGED <<secrets, nextProjectId, nextSecretId, now, env, crypto, written,
                 deleted>>

(***************************************************************************)
(* deleteProject                                                           *)
(***************************************************************************)

deleteProject(r, user, projectId) ==
  /\ Free(r)
  /\ LET q == Arrive("deleteProject", user, projectId, 0, JsUndefined,
                     JsUndefined, JsUndefined)
     IN reqs' = [reqs EXCEPT ![r] =
          IF ~Authenticated(user) THEN Respond(q, Unauthenticated)
          ELSE Goto(q, "deleteProject:findFirst")]
  /\ StoreUnchanged

\* prisma.project.findFirst({ where: { id, userId } }) and the 404
deleteProject_findFirst(r) ==
  LET q == [Log(reqs[r], "project.findFirst") EXCEPT
              !.pstat = ProjectStatus(reqs[r].projectId, reqs[r].user)]
      existingProject == projectFindFirst(q.projectId, q.user)
  IN
  /\ reqs[r].pc = "deleteProject:findFirst"
  /\ reqs' = [reqs EXCEPT ![r] =
       IF existingProject = {} THEN Respond(q, ProjectNotFound)
       ELSE Goto(q, "deleteProject:delete")]
  /\ StoreUnchanged

\* mutant: the foreign key does not cascade
secretsOnProjectDelete_keep(id) == secrets

\* the rows of table "secrets" after prisma.project.delete({ where: { id } }):
\* secrets_projectId_fkey is ON DELETE CASCADE
secretsOnProjectDelete(id) == {s \in secrets : s.projectId # id}

\* prisma.project.delete and the response; delete throws when no row has the
\* id, and the catch answers 500
deleteProject_delete(r) ==
  LET q == Log(reqs[r], "project.delete") IN
  /\ reqs[r].pc = "deleteProject:delete"
  /\ IF \A p \in projects : p.id # q.projectId
       THEN /\ reqs' = [reqs EXCEPT ![r] = Respond(q, InternalError)]
            /\ UNCHANGED <<projects, secrets>>
       ELSE /\ projects' = {p \in projects : p.id # q.projectId}
            /\ secrets' = secretsOnProjectDelete(q.projectId)
            /\ reqs' = [reqs EXCEPT ![r] =
                 Respond(IF secrets' # secrets THEN Log(q, "cascade") ELSE q,
                         MessageResponse(200, "Project deleted successfully"))]
  /\ UNCHANGED <<nextProjectId, nextSecretId, now, env, crypto, written, deleted>>

(***************************************************************************)
(* Inputs                                                                  *)
(***************************************************************************)

\* the ids a request may address
ProjectIds == 1..MaxProjects
SecretIds == 1..MaxSecrets
\* the ids the database may hand out: a create is admitted while an id of
\* SecretIds is left, and the creates in flight then may each take one
AllSecretIds == 1..(MaxSecrets + Cardinality(Slots) - 1)

\* "K"
KeyK == <<75>>
\* " "
Blank == <<32>>
\* "a", and a lone high surrogate (the JSON body "\ud83d")
ValueA == <<97>>
ValueLone == <<55357>>
\* "n"
NameN == <<110>>

\* req.user of a request: a principal, or none
Principals == Users \cup {NoUser}

\* body.value: missing, empty, not a string, well-formed
ValueInputs ==
  {JsUndefined, JsString(<<>>), JsNumber(7), JsString(ValueA),
   JsString(ValueLone)}

\* the body of a createSecret request: every value with a well-formed key,
\* and a key that is missing, empty, blank or not a string
CreateBodies ==
  {<<JsString(KeyK), v>> : v \in ValueInputs}
    \cup {<<k, JsString(ValueA)>> :
            k \in {JsUndefined, JsString(<<>>), JsString(Blank), JsNumber(7)}}

\* the crypto service has no caller but the controllers
NoCaller ==
  [value |-> <<>>, key |-> <<>>, bundles |-> <<>>, op |-> "none",
   arg |-> [encryptedValue |-> <<>>, iv |-> <<>>, authTag |-> <<>>],
   argKey |-> <<>>, out |-> [ok |-> FALSE, value |-> <<>>]]

Init ==
  /\ projects = {}
  /\ secrets = {}
  /\ nextProjectId = 1
  /\ nextSecretId = 1
  /\ now = 1
  /\ env = <<>>
  /\ reqs = [r \in Slots |-> Idle]
  /\ written = [s \in AllSecretIds |-> <<>>]
  /\ deleted = {}
  /\ crypto = NoCaller

(***************************************************************************)
(* Spec: one connection; every request of the five secret operations and   *)
(* createProject, by either principal or by none, with every kind of body, *)
(* one after the other                                                     *)
(***************************************************************************)

Serial == {1}

Next ==
  \E r \in Serial :
    \/ \E u \in Principals : createProject(r, u, JsString(NameN))
    \/ createProject_create(r)
    \/ \E u \in Principals, p \in ProjectIds : getSecrets(r, u, p)
    \/ getSecrets_ownership(r)
    \/ getSecrets_findMany(r)
    \/ \E u \in Principals, p \in ProjectIds, b \in CreateBodies :
         createSecret(r, u, p, b[1], b[2])
    \/ createSecret_ownership(r)
    \/ createSecret_findFirst(r)
    \/ createSecret_create(r)
    \/ \E u \in Principals, p \in ProjectIds, s \in SecretIds :
         getSecret(r, u, p, s)
    \/ getSecret_ownership(r)
    \/ getSecret_findFirst(r)
    \/ \E u \in Principals, p \in ProjectIds, s \in SecretIds, v \in ValueInputs :
         updateSecret(r, u, p, s, v)
    \/ updateSecret_ownership(r)
    \/ updateSecret_findFirst(r)
    \/ updateSecret_update(r)
    \/ \E u \in Principals, p \in ProjectIds, s \in SecretIds :
         deleteSecret(r, u, p, s)
    \/ deleteSecret_ownership(r)
    \/ deleteSecret_findFirst(r)
    \/ deleteSecret_delete(r)

Spec == Init /\ [][Next]_vars

(***************************************************************************)
(* SpecLive: Spec with every persistence call returning or throwing: a     *)
(* handler that stands at an await takes its next step                     *)
(***************************************************************************)

\* the steps a handler takes after the request has arrived
HandlerStep(r) ==
  \/ createProject_create(r)
  \/ getSecrets_ownership(r)
  \/ getSecrets_findMany(r)
  \/ createSecret_ownership(r)
  \/ createSecret_findFirst(r)
  \/ createSecret_create(r)
  \/ getSecret_ownership(r)
  \/ getSecret_findFirst(r)
  \/ updateSecret_ownership(r)
  \/ updateSecret_findFirst(r)
  \/ updateSecret_update(r)
  \/ deleteSecret_ownership(r)
  \/ deleteSecret_findFirst(r)
  \/ deleteSecret_delete(r)

SpecLive == Init /\ [][Next]_vars /\ \A r \in Serial : WF_vars(HandlerStep(r))

(***************************************************************************)
(* SpecRace: two connections of one principal whose handlers interleave at *)
(* every await: createProject and createSecret with the same key           *)
(***************************************************************************)

Owner == "u1"

NextRace ==
  \E r \in Slots :
    \/ createProject(r, Owner, JsString(NameN))
    \/ createProject_create(r)
    \/ \E p \in ProjectIds : createSecret(r, Owner, p, JsString(KeyK), JsString(ValueA))
    \/ createSecret_ownership(r)
    \/ createSecret_findFirst(r)
    \/ createSecret_create(r)

SpecRace == Init /\ [][NextRace]_vars

(***************************************************************************)
(* SpecTwoRun: two connections served one request at a time.  The first   *)
(* carries the secret requests that address an id no project has, the      *)
(* second every other request; the answer of a connection stays until its  *)
(* next request, so that the answer given while the project did not exist  *)
(* can be put beside the answer given once another principal owns it       *)
(***************************************************************************)

\* no other connection has a request in flight
Alone(r) == \A o \in Slots \ {r} : Free(o)

\* the connection that carries a secret request for projectId
Carrier(projectId) ==
  IF \A p \in projects : p.id # projectId THEN 1 ELSE 2

\* a body that passes the input checks and one that does not
TwoRunBodies ==
  {<<JsString(KeyK), JsString(ValueA)>>, <<JsString(KeyK), JsUndefined>>}
TwoRunValues == {JsString(ValueA), JsUndefined}

NextTwoRun ==
  \E r \in Slots :
    \/ r = 2 /\ Alone(r) /\ createProject(r, Owner, JsString(NameN))
    \/ Alone(r) /\ createProject_create(r)
    \/ \E u \in Users, p \in ProjectIds :
         r = Carrier(p) /\ Alone(r) /\ getSecrets(r, u, p)
    \/ Alone(r) /\ getSecrets_ownership(r)
    \/ Alone(r) /\ getSecrets_findMany(r)
    \/ \E u \in Users, p \in ProjectIds, b \in TwoRunBodies :
         r = Carrier(p) /\ Alone(r) /\ createSecret(r, u, p, b[1], b[2])
    \/ Alone(r) /\ createSecret_ownership(r)
    \/ Alone(r) /\ createSecret_findFirst(r)
    \/ Alone(r) /\ createSecret_create(r)
    \/ \E u \in Users, p \in ProjectIds, s \in SecretIds :
         r = Carrier(p) /\ Alone(r) /\ getSecret(r, u, p, s)
    \/ Alone(r) /\ getSecret_ownership(r)
    \/ Alone(r) /\ getSecret_findFirst(r)
    \/ \E u \in Users, p \in ProjectIds, s \in SecretIds, v \in TwoRunValues :
         r = Carrier(p) /\ Alone(r) /\ updateSecret(r, u, p, s, v)
    \/ Alone(r) /\ updateSecret_ownership(r)
    \/ Alone(r) /\ updateSecret_findFirst(r)
    \/ Alone(r) /\ updateSecret_update(r)
    \/ \E u \in Users, p \in ProjectIds, s \in SecretIds :
         r = Carrier(p) /\ Alone(r) /\ deleteSecret(r, u, p, s)
    \/ Alone(r) /\ deleteSecret_ownership(r)
    \/ Alone(r) /\ deleteSecret_findFirst(r)
    \/ Alone(r) /\ deleteSecret_delete(r)

SpecTwoRun == Init /\ [][NextTwoRun]_vars

(***************************************************************************)
(* SpecProjects: two projects exist, of one principal or of two; the       *)
(* handlers of two connections interleave at every await.  Each request   *)
(* is made by the owner of the project it addresses: createSecret with one *)
(* key and deleteProject on both connections, read, update and delete of a *)
(* secret on the first                                                     *)
(***************************************************************************)

\* the ids of the two projects
TwoProjects == {1, 2}

InitProjects ==
  /\ \E o \in Users :
       projects = {[id |-> 1, userId |-> Owner, name |-> NameN],
                   [id |-> 2, userId |-> o, name |-> NameN]}
  /\ secrets = {}
  /\ nextProjectId = 3
  /\ nextSecretId = 1
  /\ now = 1
  /\ env = <<>>
  /\ reqs = [r \in Slots |-> Idle]
  /\ written = [s \in AllSecretIds |-> <<>>]
  /\ deleted = {}
  /\ crypto = NoCaller

\* the principal addresses a project of his
Owns(user, projectId) == ProjectStatus(projectId, user) = "owned"

\* the connection that carries the reads, updates and deletes of secrets
Reader == 1

NextProjects ==
  \E r \in Slots :
    \/ \E u \in Users, p \in TwoProjects :
         Owns(u, p) /\ createSecret(r, u, p, JsString(KeyK), JsString(ValueA))
    \/ createSecret_ownership(r)
    \/ createSecret_findFirst(r)
    \/ createSecret_create(r)
    \/ \E u \in Users, p \in TwoProjects, s \in SecretIds :
         r = Reader /\ Owns(u, p) /\ getSecret(r, u, p, s)
    \/ getSecret_ownership(r)
    \/ getSecret_findFirst(r)
    \/ \E u \in Users, p \in TwoProjects, s \in SecretIds :
         r = Reader /\ Owns(u, p) /\ updateSecret(r, u, p, s, JsString(ValueA))
    \/ updateSecret_ownership(r)
    \/ updateSecret_findFirst(r)
    \/ updateSecret_update(r)
    \/ \E u \in Users, p \in TwoProjects, s \in SecretIds :
         r = Reader /\ Owns(u, p) /\ deleteSecret(r, u, p, s)
    \/ deleteSecret_ownership(r)
    \/ deleteSecret_findFirst(r)
    \/ deleteSecret_delete(r)
    \/ \E u \in Users, p \in TwoProjects : Owns(u, p) /\ deleteProject(r, u, p)
    \/ deleteProject_findFirst(r)
    \/ deleteProject_delete(r)

SpecProjects == InitProjects /\ [][NextProjects]_vars

(***************************************************************************)
(* SpecList: two projects exist; on two connections whose handlers         *)
(* interleave the owners store secrets under two keys, one of them with a  *)
(* leading blank, and list their projects                                  *)
(***************************************************************************)

\* " K"
KeyPadded == <<32, 75>>

NextList ==
  \E r \in Slots :
    \/ \E u \in Users, p \in TwoProjects, k \in {KeyK, KeyPadded} :
         Owns(u, p) /\ createSecret(r, u, p, JsString(k), JsString(ValueA))
    \/ createSecret_ownership(r)
    \/ createSecret_findFirst(r)
    \/ createSecret_create(r)
    \/ \E u \in Users, p \in TwoProjects : Owns(u, p) /\ getSecrets(r, u, p)
    \/ getSecrets_ownership(r)
    \/ getSecrets_findMany(r)

SpecList == InitProjects /\ [][NextList]_vars

(***************************************************************************)
(* SpecOwners: one connection; either principal creates the project,       *)
(* stores, updates and deletes a secret in it, and reads, renames and      *)
(* deletes the project, his own or the other's or one that does not exist  *)
(***************************************************************************)

\* "m"
NameM == <<109>>

\* body.name of updateProject: absent, a name, blank, not a string
NameInputs == {JsUndefined, JsString(NameM), JsString(Blank), JsNumber(7)}

NextOwners ==
  \E r \in Serial :
    \/ \E u \in Users : createProject(r, u, JsString(NameN))
    \/ createProject_create(r)
    \/ \E u \in Users, p \in ProjectIds :
         createSecret(r, u, p, JsString(KeyK), JsString(ValueA))
    \/ createSecret_ownership(r)
    \/ createSecret_findFirst(r)
    \/ createSecret_create(r)
    \/ \E u \in Users, p \in ProjectIds, s \in SecretIds :
         updateSecret(r, u, p, s, JsString(ValueA))
    \/ updateSecret_ownership(r)
    \/ updateSecret_findFirst(r)
    \/ updateSecret_update(r)
    \/ \E u \in Users, p \in ProjectIds, s \in SecretIds : deleteSecret(r, u, p, s)
    \/ deleteSecret_ownership(r)
    \/ deleteSecret_findFirst(r)
    \/ deleteSecret_delete(r)
    \/ \E u \in Users, p \in ProjectIds : getProject(r, u, p)
    \/ getProject_findFirst(r)
    \/ \E u \in Users, p \in ProjectIds, n \in NameInputs :
         updateProject(r, u, p, n)
    \/ updateProject_findFirst(r)
    \/ updateProject_update(r)
    \/ \E u \in Users, p \in ProjectIds : deleteProject(r, u, p)
    \/ deleteProject_findFirst(r)
    \/ deleteProject_delete(r)

SpecOwners == Init /\ [][NextOwners]_vars

(***************************************************************************)
(* SpecKey: the process is started with ENCRYPTION_KEY unset or set; on    *)
(* one connection the principals create the project and store, update and  *)
(* read a secret                                                           *)
(***************************************************************************)

\* process.env.ENCRYPTION_KEY at the start: unset, or 'k'
KeysAtStart == {<<>>, <<107>>}

InitKey ==
  /\ projects = {}
  /\ secrets = {}
  /\ nextProjectId = 1
  /\ nextSecretId = 1
  /\ now = 1
  /\ env \in KeysAtStart
  /\ reqs = [r \in Slots |-> Idle]
  /\ written = [s \in AllSecretIds |-> <<>>]
  /\ deleted = {}
  /\ crypto = NoCaller

NextKey ==
  \E r \in Serial :
    \/ \E u \in Users : createProject(r, u, JsString(NameN))
    \/ createProject_create(r)
    \/ \E u \in Users, p \in ProjectIds :
         createSecret(r, u, p, JsString(KeyK), JsString(ValueA))
    \/ createSecret_ownership(r)
    \/ createSecret_findFirst(r)
    \/ createSecret_create(r)
    \/ \E u \in Users, p \in ProjectIds, s \in SecretIds : getSecret(r, u, p, s)
    \/ getSecret_ownership(r)
    \/ getSecret_findFirst(r)
    \/ \E u \in Users, p \in ProjectIds, s \in SecretIds :
         updateSecret(r, u, p, s, JsString(ValueA))
    \/ updateSecret_ownership(r)
    \/ updateSecret_findFirst(r)
    \/ updateSecret_update(r)

SpecKey == InitKey /\ [][NextKey]_vars

(***************************************************************************)
(* SpecOutcomes: two projects exist; the handlers of two connections       *)
(* interleave.  Either principal or none stores a secret, with a body that *)
(* passes the input checks or not, in a project that is his or not; on the *)
(* first connection secrets are also updated and deleted                   *)
(***************************************************************************)

NextOutcomes ==
  \E r \in Slots :
    \/ \E u \in Principals, p \in TwoProjects, b \in TwoRunBodies :
         createSecret(r, u, p, b[1], b[2])
    \/ createSecret_ownership(r)
    \/ createSecret_findFirst(r)
    \/ createSecret_create(r)
    \/ \E u \in Principals, p \in TwoProjects, s \in SecretIds, v \in TwoRunValues :
         r = Reader /\ updateSecret(r, u, p, s, v)
    \/ updateSecret_ownership(r)
    \/ updateSecret_findFirst(r)
    \/ updateSecret_update(r)
    \/ \E u \in Principals, p \in TwoProjects, s \in SecretIds :
         r = Reader /\ deleteSecret(r, u, p, s)
    \/ deleteSecret_ownership(r)
    \/ deleteSecret_findFirst(r)
    \/ deleteSecret_delete(r)

SpecOutcomes == InitProjects /\ [][NextOutcomes]_vars

(***************************************************************************)
(* SpecCrypto: a caller of the crypto service alone.  It holds a plaintext *)
(* and a key string, has bundles made by encrypt, and hands decrypt a      *)
(* bundle as it was made, with another key, with one byte changed, or with *)
(* a field that is no longer the hex string it was                         *)
(***************************************************************************)

\* encrypt is called at most this many times
MaxEncrypts == 2

\* '', 'a', U+00E9, U+1F600 (a surrogate pair), and a lone high surrogate
Plaintexts == {<<>>, ValueA, <<233>>, <<55357, 56832>>, ValueLone}

\* a key of 64 hex digits, in lower case and in upper case
HexKeyLower == [i \in 1..HexKeyLength |-> IF i % 2 = 1 THEN 97 ELSE 49]
HexKeyUpper == [i \in 1..HexKeyLength |-> IF i % 2 = 1 THEN 65 ELSE 49]

\* 'k', 'w' and the two hex keys
KeyStrings == {<<107>>, <<119>>, HexKeyLower, HexKeyUpper}

BundleFields == {"encryptedValue", "iv", "authTag"}

\* the bits flipped in a byte
Flips == {1, 128, 255}

\* the hex string of the bytes of hex, with the bits of mask flipped in byte i
FlipByte(hex, i, mask) ==
  toHex([fromHex(hex) EXCEPT ![i] = BitXor(@, mask, 8)])

\* ways in which a hex string is cut short or stops being one
Damages == {"cut:1", "cut:2", "cut:8", "append:zz", "last:z"}

Damage(hex, how) ==
  CASE how = "cut:1" -> SubSeq(hex, 1, Len(hex) - 1)
    [] how = "cut:2" -> SubSeq(hex, 1, Len(hex) - 2)
    [] how = "cut:8" -> SubSeq(hex, 1, Len(hex) - 8)
    [] how = "append:zz" -> hex \o <<122, 122>>
    [] how = "last:z" -> SubSeq(hex, 1, Len(hex) - 1) \o <<122>>

InitCrypto ==
  /\ projects = {}
  /\ secrets = {}
  /\ nextProjectId = 1
  /\ nextSecretId = 1
  /\ now = 1
  /\ env = <<>>
  /\ reqs = [r \in Slots |-> Idle]
  /\ written = [s \in AllSecretIds |-> <<>>]
  /\ deleted = {}
  /\ \E s \in Plaintexts, k \in KeyStrings :
       crypto = [NoCaller EXCEPT !.value = s, !.key = k]

CallerOnly ==
  UNCHANGED <<projects, secrets, nextProjectId, nextSecretId, now, env, reqs,
              written, deleted>>

\* cryptoService.encrypt(value, key)
cryptoEncrypt ==
  /\ Len(crypto.bundles) < MaxEncrypts
  /\ \E iv \in RandomIvs :
       crypto' = [NoCaller EXCEPT
         !.value = crypto.value, !.key = crypto.key, !.op = "encrypt",
         !.bundles = Append(crypto.bundles,
                            [drawn |-> iv,
                             bundle |-> encrypt(crypto.value, crypto.key, iv)])]
  /\ CallerOnly

\* the bundle encrypt has just returned
Returned == crypto.bundles[Len(crypto.bundles)].bundle

\* the caller has decrypt(encryptedData, secretKey) called on what encrypt
\* just returned to it and keeps what it handed in and what came back
Decrypted(op, encryptedData, secretKey) ==
  [crypto EXCEPT !.op = op, !.arg = encryptedData, !.argKey = secretKey,
                 !.out = decrypt(encryptedData, secretKey)]

\* cryptoService.decrypt(bundle, key) of the bundle as encrypt returned it
cryptoDecrypt ==
  /\ crypto.op = "encrypt"
  /\ crypto' = Decrypted("decrypt", Returned, crypto.key)
  /\ CallerOnly

\* the same with another key string
cryptoDecryptOtherKey(k) ==
  /\ crypto.op = "encrypt"
  /\ k # crypto.key
  /\ crypto' = Decrypted("decrypt:otherKey", Returned, k)
  /\ CallerOnly

\* the same after bits of one byte of one field were flipped
cryptoDecryptChanged(field, pos, mask) ==
  /\ crypto.op = "encrypt"
  /\ pos \in 1..(Len(Returned[field]) \div 2)
  /\ crypto' = Decrypted("decrypt:changed",
                         [Returned EXCEPT ![field] = FlipByte(@, pos, mask)],
                         crypto.key)
  /\ CallerOnly

\* the same after one field was cut short or stopped being a hex string
cryptoDecryptDamaged(field, how) ==
  LET d == [Returned EXCEPT ![field] = Damage(@, how)] IN
  /\ crypto.op = "encrypt"
  /\ d # Returned
  /\ crypto' = Decrypted("decrypt:damaged", d, crypto.key)
  /\ CallerOnly

NextCrypto ==
  \/ cryptoEncrypt
  \/ cryptoDecrypt
  \/ \E k \in KeyStrings : cryptoDecryptOtherKey(k)
  \/ \E f \in BundleFields, pos \in 1..IvLength, mask \in Flips :
       cryptoDecryptChanged(f, pos, mask)
  \/ \E f \in BundleFields, how \in Damages : cryptoDecryptDamaged(f, how)

SpecCrypto == InitCrypto /\ [][NextCrypto]_vars

(***************************************************************************)
(* Properties                                                              *)
(***************************************************************************)

SecretOps ==
  {"getSecrets", "createSecret", "getSecret", "updateSecret", "deleteSecret"}

Done(r) == reqs[r].pc = "done"

\* the events of a trace that read or write a secret row
SecretEvents ==
  {"secret.findMany", "secret.findFirst", "secret.create", "secret.update",
   "secret.delete"}
Events(q) == {q.trace[i] : i \in DOMAIN q.trace}

\* a non-empty string
NonEmptyString(x) == x.t = "string" /\ Len(x.v) > 0

\* the secrets a response carries
Items(res) ==
  {res.secret[i] : i \in DOMAIN res.secret}
    \cup {res.secrets[i] : i \in DOMAIN res.secrets}

\* the stored value of s is the JSON text of a bundle that encrypt gives for
\* plaintext under the master key and one of the IVs, and is not plaintext
HoldsBundleOf(s, plaintext) ==
  /\ \E iv \in RandomIvs :
       s.value = JSONstringify(encrypt(plaintext, encryptionKey, iv))
  /\ s.value # plaintext

\* every row a step inserts or changes holds a bundle of the plaintext that
\* step wrote
C1_WritesBundle ==
  \A s \in secrets' :
    (s \notin secrets \/ written'[s.id] # written[s.id])
      => HoldsBundleOf(s, written'[s.id])

\* C1: the store starts empty, and every value a step puts into it is the
\* serialized bundle encrypt gives for the plaintext written, never that
\* plaintext: every stored value is at every time such a bundle.
C1_StoreHoldsOnlyBundles == (secrets = {}) /\ [][C1_WritesBundle]_vars

\* a secret that was created and then updated is in the store
C1_Witness ==
  \E r \in Slots :
    /\ Done(r) /\ reqs[r].op = "updateSecret" /\ reqs[r].res.status = 200
    /\ \E s \in secrets : s.id = reqs[r].secretId

BodyWellFormed(q) ==
  CASE q.op = "createSecret" ->
         NonEmptyString(q.key) /\ NonEmptyString(q.value)
           /\ \E i \in DOMAIN q.key.v : ~IsSpace(q.key.v[i])
    [] q.op = "updateSecret" -> NonEmptyString(q.value)
    [] OTHER -> TRUE

SameRequest(a, b) ==
  /\ a.op = b.op /\ a.user = b.user /\ a.projectId = b.projectId
  /\ a.secretId = b.secretId /\ a.key = b.key /\ a.value = b.value

\* the answers of the same secret request, once given while no project had
\* the id and once while another principal owned the project, are equal
C3_SameAnswer ==
  \A a \in Slots, b \in Slots :
    (/\ Done(a) /\ Done(b) /\ reqs[a].op \in SecretOps
     /\ SameRequest(reqs[a], reqs[b])
     /\ reqs[a].pstat = "absent" /\ reqs[b].pstat = "foreign")
      => reqs[a].res = reqs[b].res

\* no step of a secret request on a project its principal does not own
\* changes a table
C3_NoStoreChange ==
  \A r \in Slots :
    (reqs'[r] # reqs[r] /\ reqs'[r].op \in SecretOps /\ reqs'[r].pstat # "owned")
      => UNCHANGED <<projects, secrets>>

\* C3: for every principal, secret operation and body, the response when the
\* project is owned by another principal equals the response when no project
\* has that id, and no step of either run changes the store.
C3_Noninterference == []C3_SameAnswer /\ [][C3_NoStoreChange]_vars

\* the same read-one was answered before the project existed and after
\* another principal created it and stored a secret in it
C3_Witness ==
  \E a \in Slots, b \in Slots :
    /\ Done(a) /\ Done(b) /\ reqs[a].op = "getSecret"
    /\ SameRequest(reqs[a], reqs[b])
    /\ reqs[a].pstat = "absent" /\ reqs[b].pstat = "foreign"
    /\ \E s \in secrets : s.projectId = reqs[b].projectId

\* C4: in every invocation, each read or write of a secret row comes after
\* checkProjectOwnership returned a project; an invocation whose ownership
\* check returned none touches no secret row.
C4_OwnershipBeforeSecrets ==
  \A r \in Slots :
    \A i \in DOMAIN reqs[r].trace :
      reqs[r].trace[i] \in SecretEvents
        => \E j \in 1..(i - 1) : reqs[r].trace[j] = "ownership:ok"

\* a secret row was read, and one written, after the ownership check
C4_Witness ==
  \E r \in Slots :
    /\ Done(r) /\ reqs[r].op = "updateSecret"
    /\ {"secret.findFirst", "secret.update"} \subseteq Events(reqs[r])

\* C5: no two stored secrets have the same projectId and key, and of the
\* createSecret calls with one projectId and key at most one is answered 201,
\* however the calls interleave.
C5_KeyUniquePerProject ==
  /\ \A s1 \in secrets, s2 \in secrets :
       (s1.projectId = s2.projectId /\ s1.key = s2.key) => s1.id = s2.id
  /\ \A a \in Slots, b \in Slots :
       (/\ a # b /\ Done(a) /\ Done(b)
        /\ reqs[a].op = "createSecret" /\ reqs[b].op = "createSecret"
        /\ reqs[a].projectId = reqs[b].projectId /\ reqs[a].key = reqs[b].key
        /\ reqs[a].res.status = 201)
         => reqs[b].res.status # 201

\* two creates of one key both passed the pre-check and both called insert;
\* one was answered 201
C5_Witness ==
  \E a \in Slots, b \in Slots :
    /\ a # b /\ Done(a) /\ Done(b)
    /\ reqs[a].op = "createSecret" /\ reqs[b].op = "createSecret"
    /\ reqs[a].projectId = reqs[b].projectId /\ reqs[a].key = reqs[b].key
    /\ "secret.create" \in Events(reqs[a]) /\ "secret.create" \in Events(reqs[b])
    /\ reqs[a].res.status = 201

\* the call did not insert because the key was there: its pre-check found the
\* row, or its insert was refused by the unique index
KeyExisted(q) ==
  \/ "throw:unique" \in Events(q)
  \/ "secret.findFirst" \in Events(q) /\ "encrypt" \notin Events(q)

\* C6: every createSecret that does not insert because a secret with its
\* projectId and key exists is answered 409, also when that secret was
\* inserted between the call's pre-check and its insert.
C6_ConflictOnExistingKey ==
  \A r \in Slots :
    (Done(r) /\ reqs[r].op = "createSecret" /\ KeyExisted(reqs[r]))
      => reqs[r].res.status = 409

\* C7: read-one of a secret that exists, by the project's owner, answers 200
\* with exactly the plaintext of the last successful write to that secret.
C7_ReadYourWrites ==
  \A r \in Slots :
    (Done(r) /\ reqs[r].op = "getSecret" /\ reqs[r].read # <<>>)
      => /\ reqs[r].res.status = 200
         /\ \A item \in Items(reqs[r].res) : item.value = reqs[r].read[1]

MetaFields == {"id", "key", "createdAt", "updatedAt"}

\* C9: the secrets in the responses of list, create and update have the
\* members id, key, createdAt and updatedAt and no other; a response with a
\* value member is a read-one's; list never calls decrypt.
C9_ValueOnlyInReadOne ==
  \A r \in Slots :
    Done(r) =>
      /\ reqs[r].op \in {"getSecrets", "createSecret", "updateSecret"}
           => \A item \in Items(reqs[r].res) : DOMAIN item = MetaFields
      /\ (\E item \in Items(reqs[r].res) : DOMAIN item # MetaFields)
           => reqs[r].op = "getSecret"
      /\ reqs[r].op = "getSecrets" => "decrypt" \notin Events(reqs[r])

\* a list that shows a secret was answered
C9_Witness ==
  \E r \in Slots :
    /\ Done(r) /\ reqs[r].op = "getSecrets" /\ reqs[r].res.status = 200
    /\ Len(reqs[r].res.secrets) > 0

\* the bodies C10 names: createSecret with key or value missing, empty or not
\* a string; updateSecret with value missing or not a string
BodyMalformed(q) ==
  CASE q.op = "createSecret" -> ~NonEmptyString(q.key) \/ ~NonEmptyString(q.value)
    [] q.op = "updateSecret" -> q.value.t # "string"
    [] OTHER -> FALSE

\* C10: such a call by a principal is answered 400 and has called neither
\* encrypt nor the database.
C10_InvalidInputFailsFast ==
  \A r \in Slots :
    (Done(r) /\ reqs[r].user \in Users /\ BodyMalformed(reqs[r]))
      => /\ reqs[r].res.status = 400
         /\ reqs[r].trace = <<>>

\* the owner's createSecret with a value that is not a string was answered 400
C10_Witness ==
  \E r \in Slots :
    /\ Done(r) /\ reqs[r].op = "createSecret" /\ reqs[r].pstat = "owned"
    /\ reqs[r].value.t = "number" /\ reqs[r].res.status = 400

\* C11: a secret operation called with no principal is answered 401 'User
\* not authenticated' whatever its projectId, secretId and body, and has made
\* no ownership lookup, no secret access, no encrypt and no decrypt.
C11_UnauthenticatedFirst ==
  \A r \in Slots :
    (reqs[r].op \in SecretOps /\ reqs[r].user = NoUser)
      => /\ Done(r)
         /\ reqs[r].res = Unauthenticated
         /\ reqs[r].trace = <<>>

\* an update of a stored secret with a well-formed value and no principal
\* was answered 401
C11_Witness ==
  \E r \in Slots :
    /\ Done(r) /\ reqs[r].op = "updateSecret" /\ reqs[r].user = NoUser
    /\ BodyWellFormed(reqs[r])
    /\ \E s \in secrets : s.id = reqs[r].secretId /\ s.projectId = reqs[r].projectId
    /\ reqs[r].res.status = 401

\* the connection whose updateSecret writes in this step
Updating(r) == reqs[r].pc = "updateSecret:update" /\ reqs'[r].pc = "done"

\* a row that is in the table before and after a step has all its fields
\* but value as they were, and its value as it was unless the step is the
\* write of an updateSecret addressed to it
C12_FrameOfStep ==
  \A s \in secrets, t \in secrets' :
    t.id = s.id
      => /\ [t EXCEPT !.value = s.value] = s
         /\ t.value # s.value
              => \E r \in Slots : Updating(r) /\ reqs[r].secretId = s.id

C12_FrameOfStepButUpdatedAt ==
  \A s \in secrets, t \in secrets' :
    t.id = s.id
      => /\ t.key = s.key /\ t.projectId = s.projectId
         /\ t.createdAt = s.createdAt
         /\ t # s => \E r \in Slots : Updating(r) /\ reqs[r].secretId = s.id

C13_RoundTrip ==
  crypto.op = "decrypt"
    => crypto.out.ok /\ crypto.out.value = crypto.value

\* the pairs of encrypt calls the caller made
CallPairs ==
  {p \in (DOMAIN crypto.bundles) \X (DOMAIN crypto.bundles) : p[1] < p[2]}

\* C14 as stated: no two encrypt calls under one key use the same nonce, and
\* two encryptions of one plaintext under one key give bundles with
\* different nonce and different ciphertext.
C14_NoncesAndCiphertextsDiffer ==
  \A p \in CallPairs :
    LET b1 == crypto.bundles[p[1]].bundle
        b2 == crypto.bundles[p[2]].bundle
    IN b1.iv # b2.iv /\ b1.encryptedValue # b2.encryptedValue

\* C14 amended: the nonce of every bundle is the sixteen bytes its encrypt
\* call drew from randomBytes; two calls with one plaintext and key that
\* drew different bytes give bundles with different nonce; the ciphertext
\* of the empty plaintext is empty whatever the nonce.
C14_NonceIsTheDraw ==
  /\ \A i \in DOMAIN crypto.bundles :
       /\ fromHex(crypto.bundles[i].bundle.iv) = crypto.bundles[i].drawn
       /\ Len(crypto.bundles[i].drawn) = IvLength
       /\ crypto.value = <<>> => crypto.bundles[i].bundle.encryptedValue = <<>>
  /\ \A p \in CallPairs :
       crypto.bundles[p[1]].drawn # crypto.bundles[p[2]].drawn
         => crypto.bundles[p[1]].bundle.iv # crypto.bundles[p[2]].bundle.iv

\* one non-empty plaintext was encrypted twice under one key with two
\* different draws
C14_Witness ==
  \E p \in CallPairs :
    /\ crypto.value # <<>>
    /\ crypto.bundles[p[1]].drawn # crypto.bundles[p[2]].drawn

\* what the caller holds when decrypt threw its Error
DecryptFailed == [ok |-> FALSE, value |-> <<>>]

\* C15: for a bundle encrypt returned, decrypt under the same key fails
\* with the decryption error once the bits of any one byte of the
\* ciphertext, of the nonce or of the tag were changed; it returns no
\* plaintext.
C15_ChangedByteFails ==
  crypto.op = "decrypt:changed" =>
    /\ crypto.arg # Returned
    /\ crypto.out = DecryptFailed

\* a byte of the ciphertext of a non-empty plaintext was changed and the
\* bundle handed to decrypt
C15_Witness ==
  /\ crypto.op = "decrypt:changed"
  /\ crypto.value # <<>>
  /\ crypto.arg.encryptedValue # Returned.encryptedValue
  /\ crypto.arg.iv = Returned.iv
  /\ crypto.arg.authTag = Returned.authTag

\* C16 as stated: decrypt of encrypt(s, k1) under any key string k2 other
\* than k1 fails with the decryption error.
C16_OtherKeyStringFails ==
  crypto.op = "decrypt:otherKey" => crypto.out = DecryptFailed

\* C16 amended: decrypt of encrypt(s, k1) under a key string k2 fails with
\* the decryption error, the one corrupted data gets, exactly when k1 and k2
\* normalize to different 32-byte keys; two distinct strings of 64 hex
\* digits that differ in letter case are one key.
C16_OtherKeyFails ==
  crypto.op = "decrypt:otherKey" =>
    /\ crypto.argKey # crypto.key
    /\ crypto.arg = Returned
    /\ IF normalizeKey(crypto.argKey) # normalizeKey(crypto.key)
         THEN crypto.out = DecryptFailed
         ELSE crypto.out.ok

\* a non-empty plaintext encrypted under one passphrase was handed to
\* decrypt with another
C16_Witness ==
  /\ crypto.op = "decrypt:otherKey"
  /\ crypto.value # <<>>
  /\ normalizeKey(crypto.argKey) # normalizeKey(crypto.key)
  /\ ~crypto.out.ok

\* C17: decrypt fails with the decryption error for every bundle in which
\* one of the three fields was cut short or is not a well-formed hex string;
\* it returns no plaintext for such a bundle.
C17_DamagedFieldFails ==
  crypto.op = "decrypt:damaged" => crypto.out = DecryptFailed

\* the project of the request has no secret with the key of the request
KeyFree(q) == \A s \in secrets : ~(s.projectId = q.projectId /\ s.key = q.key.v)

\* C18, one step of createSecret: when the project addressed has no secret
\* with the key, the lookup does not answer 409 and the insert, the project
\* being there, stores the secret and answers 201, whether or not another
\* project (of the same or of another principal) has a secret with that
\* key; every secret stored before is stored unchanged after.
C18_ScopedStep ==
  \A r \in Slots :
    LET q == reqs[r] IN
    /\ (q.pc = "createSecret:findFirst" /\ reqs'[r] # q /\ KeyFree(q))
         => reqs'[r].pc = "createSecret:create" /\ secrets' = secrets
    /\ (q.pc = "createSecret:create" /\ reqs'[r] # q /\ KeyFree(q)
          /\ ~ForeignKeyViolation(q.projectId))
         => /\ reqs'[r].pc = "done"
            /\ reqs'[r].res.status = 201
            /\ secrets \subseteq secrets'
            /\ \E s \in secrets' \ secrets :
                 s.projectId = q.projectId /\ s.key = q.key.v

\* C18: the uniqueness of keys is per project.
C18_KeyScopedPerProject == [][C18_ScopedStep]_vars

\* two projects each hold a secret with the same key, the second stored by
\* a createSecret answered 201
C18_Witness ==
  \E s1 \in secrets, s2 \in secrets, r \in Slots :
    /\ s1.key = s2.key
    /\ s1.projectId # s2.projectId
    /\ s1.id < s2.id
    /\ reqs[r].op = "createSecret"
    /\ reqs[r].res.status = 201
    /\ reqs[r].res.secret[1].id = s2.id

\* C19: every stored secret refers to a stored project: once
\* deleteProject(P) has deleted P no secret of P is stored, and a
\* createSecret that races with it stores none either.
C19_SecretsHaveProjects ==
  \A s \in secrets : \E p \in projects : p.id = s.projectId

\* a deleteProject was answered 200 and took a secret of the project with
\* it, and a createSecret for that project, past its ownership check before
\* the project went, had its insert refused by the foreign key
C19_Witness ==
  \E d \in Slots, c \in Slots :
    /\ reqs[d].op = "deleteProject"
    /\ reqs[d].res.status = 200
    /\ \E i \in DOMAIN reqs[d].trace : reqs[d].trace[i] = "cascade"
    /\ reqs[c].op = "createSecret"
    /\ reqs[c].projectId = reqs[d].projectId
    /\ reqs[c].res = InternalError
    /\ \E i \in DOMAIN reqs[c].trace : reqs[c].trace[i] = "ownership:ok"
    /\ \E i \in DOMAIN reqs[c].trace : reqs[c].trace[i] = "throw:foreignKey"

\* the steps at which getSecret, updateSecret and deleteSecret look the
\* secret up
SecretLookups ==
  {"getSecret:findFirst", "updateSecret:findFirst", "deleteSecret:findFirst"}

\* the project addressed has no secret with the id addressed: no secret has
\* the id, or the one that has it is of another project
NotOfProject(q) ==
  \A s \in secrets : s.id = q.secretId => s.projectId # q.projectId

\* C20, the lookup step of read-one, update and delete: addressed to a
\* project and a secret id that is of another project, the handler answers
\* the NotFound it answers for an id no secret has, goes no further, and no
\* secret changes, whoever owns the two projects.
C20_LookupStep ==
  \A r \in Slots :
    (reqs[r].pc \in SecretLookups /\ reqs'[r] # reqs[r] /\ NotOfProject(reqs[r]))
      => /\ reqs'[r].pc = "done"
         /\ reqs'[r].res = SecretNotFound
         /\ secrets' = secrets

\* C20: a secret of another project is not found.
C20_OtherProjectNotFound == [][C20_LookupStep]_vars

\* with no other connection in use, the owner of both projects stored a
\* secret in one and then had an update addressed to the other project and
\* that secret's id answered NotFound
C20_Witness ==
  LET q == reqs[Reader] IN
  /\ \A r \in Slots \ {Reader} : reqs[r] = Idle
  /\ q.op = "updateSecret"
  /\ q.res = SecretNotFound
  /\ \A p \in TwoProjects : Owns(q.user, p)
  /\ \E s \in secrets : s.id = q.secretId /\ s.projectId # q.projectId
  /\ \E i \in DOMAIN q.trace : q.trace[i] = "ownership:ok"

\* C21, the step at which getSecrets reads: the list answered holds the
\* id, key, createdAt and updatedAt of exactly the secrets stored with the
\* project's id at that moment, each once, none of another project, the
\* later created first.
C21_ListStep ==
  \A r \in Slots :
    (reqs[r].pc = "getSecrets:findMany" /\ reqs'[r] # reqs[r]) =>
      LET list == reqs'[r].res.secrets
          ofProject == {s \in secrets : s.projectId = reqs[r].projectId}
      IN /\ reqs'[r].res.status = 200
         /\ Len(list) = Cardinality(ofProject)
         /\ {list[i] : i \in DOMAIN list} = {SelectMeta(s) : s \in ofProject}
         /\ \A i \in DOMAIN list, j \in DOMAIN list :
              i < j => list[i].createdAt >= list[j].createdAt

\* C21: list(P) returns the secrets of P, newest first.
C21_ListIsTheProject == [][C21_ListStep]_vars

\* a list of two secrets created at different times was answered
C21_Witness ==
  \E r \in Slots :
    /\ reqs[r].op = "getSecrets"
    /\ reqs[r].res.status = 200
    /\ Len(reqs[r].res.secrets) = 2
    /\ reqs[r].res.secrets[1].createdAt > reqs[r].res.secrets[2].createdAt

ProjectOps == {"getProject", "updateProject", "deleteProject"}

\* C22 as stated: getProject, updateProject and deleteProject on a project
\* the caller does not own answer 404 'Project not found'.
C22_NotOwnedIsNotFound ==
  \A r \in Slots :
    (Done(r) /\ reqs[r].op \in ProjectOps /\ reqs[r].user \in Users
       /\ reqs[r].pstat # "owned")
      => reqs[r].res = ProjectNotFound

\* what the three operations answer for a project that is not the caller's
NotOwnedAnswer(q) ==
  IF q.op = "updateProject" /\ updateProjectInvalid(q.name) = "empty"
    THEN ErrorResponse(400, "Project name cannot be empty")
  ELSE IF q.op = "updateProject" /\ updateProjectInvalid(q.name) = "throw"
    THEN InternalError
  ELSE ProjectNotFound

\* no step of such a request changes a project or a secret
C22_NoStoreChange ==
  \A r \in Slots :
    (reqs'[r] # reqs[r] /\ reqs'[r].op \in ProjectOps /\ reqs'[r].pstat # "owned")
      => UNCHANGED <<projects, secrets>>

\* C22 amended: on a project of another principal, as on an id no project
\* has, getProject and deleteProject answer 404 'Project not found', and so
\* does updateProject unless the name is blank (400) or not a string (500),
\* which it answers before it looks the project up; no step of these
\* requests changes a project or a secret.
C22_NotOwnedHidden ==
  /\ [](\A r \in Slots :
          (Done(r) /\ reqs[r].op \in ProjectOps /\ reqs[r].user \in Users
             /\ reqs[r].pstat # "owned")
            => reqs[r].res = NotOwnedAnswer(reqs[r]))
  /\ [][C22_NoStoreChange]_vars

\* a renaming of another principal's project, which holds a secret, was
\* answered 404
C22_Witness ==
  \E r \in Slots :
    /\ Done(r) /\ reqs[r].op = "updateProject" /\ reqs[r].pstat = "foreign"
    /\ reqs[r].name = JsString(NameM)
    /\ reqs[r].res = ProjectNotFound
    /\ \E s \in secrets : s.projectId = reqs[r].projectId

\* the write of an updateSecret or deleteSecret finds no row with the id:
\* the handler answers 404
C23_AbsentRowStep ==
  \A r \in Slots :
    (/\ reqs[r].pc \in {"updateSecret:update", "deleteSecret:delete"}
     /\ reqs'[r] # reqs[r]
     /\ \A s \in secrets : s.id # reqs[r].secretId)
      => reqs'[r].res.status = 404

\* C23: in every interleaving, an updateSecret or deleteSecret whose row is
\* gone when its write runs (removed after its existence check by a
\* concurrent deleteSecret or deleteProject) ends in NotFound, not in an
\* Internal failure.
C23_MissingRowIsNotFound == [][C23_AbsentRowStep]_vars

\* C24: an updateSecret of a principal is answered InvalidInput exactly when
\* its value is absent or not a string; a value that is present and a
\* string passes validation.
C24_UpdateValidation ==
  \A r \in Slots :
    (Done(r) /\ reqs[r].op = "updateSecret" /\ reqs[r].user \in Users)
      => (reqs[r].res.status = 400 <=> reqs[r].value.t # "string")

\* C25: the key of every stored secret is a non-empty string equal to its
\* whitespace-trimmed form, so that two keys that differ only by
\* surrounding whitespace are never stored in one project.
C25_StoredKeysTrimmed ==
  \A s \in secrets : Len(s.key) > 0 /\ trim(s.key) = s.key

\* every project id has one row, and its owner is a principal
OneOwnerEach ==
  \A p \in projects :
    /\ p.userId \in Users
    /\ \A o \in projects : o.id = p.id => o = p

\* a step leaves the owner of every project it keeps, and a project it adds
\* is owned by the principal whose createProject added it
C26_OwnerStep ==
  \A p \in projects' :
    IF \E o \in projects : o.id = p.id
      THEN \A o \in projects : o.id = p.id => o.userId = p.userId
      ELSE \E r \in Slots :
             /\ reqs[r].op = "createProject"
             /\ reqs[r].pc = "createProject:create"
             /\ reqs'[r].pc = "done"
             /\ p.userId = reqs[r].user

\* C26: every project has exactly one owner, the principal who called
\* createProject, and no updateProject and no secret operation changes it.
C26_OwnerFixed == []OneOwnerEach /\ [][C26_OwnerStep]_vars

\* the owner renamed the project, which is still his
C26_Witness ==
  \E r \in Slots, p \in projects :
    /\ Done(r) /\ reqs[r].op = "updateProject" /\ reqs[r].res.status = 200
    /\ p.id = reqs[r].projectId
    /\ p.name = NameM
    /\ p.userId = reqs[r].user

\* the statuses of Success, Unauthenticated, InvalidInput, NotFound,
\* Conflict and Internal
TerminalStatuses == {200, 201, 401, 400, 404, 409, 500}

\* the handler is running: the request has arrived and no response is sent
InFlight(r) == ~Free(r)

\* no response is sent while the handler runs, and the response of a secret
\* operation that has returned is one of the terminal outcomes
C27_OneOutcome ==
  \A r \in Slots :
    /\ InFlight(r) => reqs[r].res = NoResponse
    /\ (Done(r) /\ reqs[r].op \in SecretOps)
         => reqs[r].res.status \in TerminalStatuses

\* a handler that has returned does nothing more: its connection changes
\* only when the next request arrives
C27_NoSecondResponse ==
  \A r \in Slots :
    (Done(r) /\ reqs'[r] # reqs[r]) => reqs'[r].trace = <<>>

\* C27: every invocation of a secret operation, its persistence calls
\* returning or throwing, comes to one terminal outcome and sends one
\* response, not none and not two.
C27_Terminates ==
  /\ \A r \in Serial : InFlight(r) ~> Done(r)
  /\ []C27_OneOutcome
  /\ [][C27_NoSecondResponse]_vars

\* a createSecret went through its three persistence calls and was answered
C27_Witness ==
  \E r \in Serial :
    /\ Done(r) /\ reqs[r].op = "createSecret"
    /\ reqs[r].res.status = 201
    /\ Len(reqs[r].trace) >= 3

\* a step leaves the master key as it is, and every secret it stores or
\* rewrites decrypts under the key as it is after the step
C28_KeyStep ==
  /\ encryptionKey' = encryptionKey
  /\ \A s \in secrets' : s \notin secrets => (decryptSecretValue(s.value).ok)'

\* C28: no operation changes the master key: every encrypt and decrypt of
\* the secret operations uses one key value, and a stored secret is
\* decrypted with the key it was encrypted with.
C28_MasterKeyFixed == (secrets = {}) /\ [][C28_KeyStep]_vars

\* a secret stored and later rewritten was read and decrypted
C28_Witness ==
  \E r \in Slots, s \in secrets :
    /\ Done(r) /\ reqs[r].op = "getSecret" /\ reqs[r].res.status = 200
    /\ s.id = reqs[r].secretId
    /\ s.updatedAt > s.createdAt
    /\ reqs[r].res.secret[1].value = ValueA

\* the statuses of Unauthenticated, InvalidInput, NotFound and Conflict
FailedStatuses == {401, 400, 404, 409}

\* the events of a trace that write a secret row
WriteEvents == {"secret.create", "secret.update", "secret.delete"}

\* a step of an invocation that changes a project or a secret is its last
\* and ends in Success
C29_WriteStep ==
  \A r \in Slots :
    (reqs'[r] # reqs[r] /\ <<projects, secrets>>' # <<projects, secrets>>)
      => /\ InFlight(r)
         /\ reqs'[r].pc = "done"
         /\ reqs'[r].res.status \in {200, 201}

\* C29: a secret operation that ends in Unauthenticated, InvalidInput,
\* NotFound or Conflict has made no write call, and no step of it has
\* changed a project or a secret.
C29_FailuresChangeNothing ==
  /\ [](\A r \in Slots :
          (Done(r) /\ reqs[r].op \in SecretOps
             /\ reqs[r].res.status \in FailedStatuses)
            => Events(reqs[r]) \cap WriteEvents = {})
  /\ [][C29_WriteStep]_vars

\* with a secret stored, a createSecret with its key was answered 409 on one
\* connection and a request was answered 401, 400 or 404 on the other
C29_Witness ==
  \E r \in Slots, o \in Slots :
    /\ secrets # {}
    /\ Done(r) /\ reqs[r].op = "createSecret" /\ reqs[r].res.status = 409
    /\ Done(o) /\ reqs[o].op \in SecretOps
    /\ reqs[o].res.status \in {401, 400, 404}

\* the write of an updateSecret or deleteSecret, keyed by the secret id
\* alone, changes or removes only the secret addressed, and that secret is
\* of the project addressed
C30_WriteStep ==
  \A r \in Slots :
    (/\ reqs[r].pc \in {"updateSecret:update", "deleteSecret:delete"}
     /\ reqs'[r] # reqs[r])
      => /\ \A s \in secrets \ secrets' :
              s.id = reqs[r].secretId /\ s.projectId = reqs[r].projectId
         /\ \A s \in secrets' \ secrets :
              s.id = reqs[r].secretId /\ s.projectId = reqs[r].projectId

\* C30: in every interleaving, an updateSecret or deleteSecret addressed to
\* project P by its owner changes or removes only a secret of P.
C30_WritesStayInProject == [][C30_WriteStep]_vars

\* the owner of both projects updated a secret of one while the other
\* project held a secret too
C30_Witness ==
  \E r \in Slots, s \in secrets :
    /\ Done(r) /\ reqs[r].op = "updateSecret" /\ reqs[r].res.status = 200
    /\ \A p \in TwoProjects : Owns(reqs[r].user, p)
    /\ s.projectId # reqs[r].projectId
    /\ \E t \in secrets : t.id = reqs[r].secretId /\ t.updatedAt > t.createdAt

====
